---------------------------- MODULE Spec2Model ----------------------------
(***************************************************************************)
(* The EMG ingestion path of the service: POST /emg/record and             *)
(* POST /emg/records (app/api/emg.py), the request model EmgRecord         *)
(* (app/models.py), the table emg_records (app/models_db.py) and the       *)
(* storage writer create_emg_records (app/crud.py).                        *)
(*                                                                         *)
(* Each request runs as its own process: the framework parses the body,    *)
(* resolves the get_db dependency (a session of its own), validates the    *)
(* body against EmgRecord, calls the handler, and finally runs the         *)
(* dependency's finally block.  The handler stages one EmgRecordDB object  *)
(* per record in the session and calls db.commit(), which flushes the      *)
(* staged objects as INSERTs inside one database transaction and then      *)
(* commits it.  The database shows other sessions committed rows only.     *)
(* The outcome of COMMIT is taken to be the one the client observes.       *)
(***************************************************************************)
EXTENDS Integers, Sequences, FiniteSets, TLC

(* ------------------------------ bounds -------------------------------- *)

\* number of requests the clients send
NumRequests == 2

\* largest number of records the clients send over all requests
MaxRecords == 2

Requests == 1..NumRequests

(* ----------------------- integers of any size ------------------------- *)
(* A Python int is unbounded and a BigInteger column holds 64 bits, so an  *)
(* integer n is written <<hi, mid, lo>> with n = hi*2^42 + mid*2^21 + lo,  *)
(* mid and lo in 0..2^21-1 and hi any integer: 2^63 is <<2^21, 0, 0>>.     *)

Limb == 2^21

IntOf(hi, mid, lo) == <<hi, mid, lo>>

INT64_MAX == IntOf(Limb - 1, Limb - 1, Limb - 1)

INT64_MIN == IntOf(-Limb, 0, 0)

\* 2^63, the first integer above the 64-bit range
INT64_MAX_PLUS_1 == IntOf(Limb, 0, 0)

SmallInt(n) == IntOf(0, 0, n)

\* n lies in [-2^63, 2^63 - 1]
InInt64(n) == n[1] >= -Limb /\ n[1] < Limb

(* ----------------------------- JSON values ---------------------------- *)

JInt(n) == [t |-> "int", v |-> n]

\* a JSON number with a fraction: coef * 10^exp with exp < 0
JNum(coef, exp) == [t |-> "num", v |-> [coef |-> SmallInt(coef), exp |-> exp]]

JNull == [t |-> "null"]

\* the key is not in the object
Absent == [t |-> "absent"]

(* ------------------------- app/models.py ------------------------------ *)

Rejected == [ok |-> FALSE]

Accepted(v) == [ok |-> TRUE, v |-> v]

\* timestamp: int -- an integer of any size; a null and a missing key are
\* errors
ValidateInt(j) ==
    IF j.t = "int" THEN Accepted(j.v) ELSE Rejected

\* rawValue: Decimal -- the exact decimal coef * 10^exp the number writes
ValidateDecimal(j) ==
    CASE j.t = "int" -> Accepted([coef |-> j.v, exp |-> 0])
      [] j.t = "num" -> Accepted(j.v)
      [] OTHER -> Rejected

\* EmgRecord with defaults for its fields (timestamp: int = 0,
\* rawValue: Decimal = 0): a field that is missing or of the wrong type
\* no longer fails the record
EmgRecordWithDefaults(w) ==
    Accepted([timestamp |-> IF ValidateInt(w.timestamp).ok
                            THEN ValidateInt(w.timestamp).v ELSE SmallInt(0),
              rawValue  |-> IF ValidateDecimal(w.rawValue).ok
                            THEN ValidateDecimal(w.rawValue).v
                            ELSE [coef |-> SmallInt(0), exp |-> 0]])

\* class EmgRecord(BaseModel): both fields are required
EmgRecord(w) ==
    IF ValidateInt(w.timestamp).ok /\ ValidateDecimal(w.rawValue).ok
    THEN Accepted([timestamp |-> ValidateInt(w.timestamp).v,
                   rawValue  |-> ValidateDecimal(w.rawValue).v])
    ELSE Rejected

\* records: List[EmgRecord] -- one error in any item is an error of the body
ValidBody(body) == \A i \in 1..Len(body) : EmgRecord(body[i]).ok

\* the validated value of a valid body
Records(body) == [i \in 1..Len(body) |-> EmgRecord(body[i]).v]

(* ------------------------ app/models_db.py ---------------------------- *)

\* timestamp = Column(Integer, nullable=False), as the columns of
\* lectures_sec_millis are: the store refuses a value outside
\* [-2^31, 2^31 - 1]
TimestampColumnInteger(n) ==
    \/ n[1] = 0 /\ n[2] < 2^10
    \/ n[1] = -1 /\ n[2] >= Limb - 2^10

\* timestamp = Column(BigInteger, nullable=False): the store refuses a
\* value outside the 64-bit range
TimestampColumnHolds(n) == InInt64(n)

\* EmgRecordDB(timestamp=r.timestamp, rawValue=r.rawValue): a new object
\* with no id yet (0 stands for None); by is the request and position it
\* was made for
EmgRecordDB(rec, r, i) ==
    [timestamp |-> rec.timestamp, rawValue |-> rec.rawValue, id |-> 0,
     by |-> <<r, i>>]

\* the row an INSERT of object o makes: id from the sequence, created_at
\* from the server default
Row(o, id, created) ==
    [id |-> id, timestamp |-> o.timestamp, rawValue |-> o.rawValue,
     created_at |-> created]

(* ------------------------------ inputs -------------------------------- *)

Half == JNum(5, -1)

WireRecords ==
    { [timestamp |-> JInt(INT64_MAX),         rawValue |-> Half],
      [timestamp |-> JInt(INT64_MIN),         rawValue |-> JInt(SmallInt(3))],
      [timestamp |-> JInt(INT64_MAX_PLUS_1),  rawValue |-> Half],
      [timestamp |-> Absent,                  rawValue |-> Half],
      [timestamp |-> JInt(SmallInt(1000)),    rawValue |-> JNull] }

Bodies(n) == UNION { [1..k -> WireRecords] : k \in 0..n }

NoRequest == [endpoint |-> "none", body |-> <<>>]

NoResponse == [status |-> 0]

(* ------------------------------- state -------------------------------- *)

VARIABLES
    pc,          \* pc[r]: where request r is
    request,     \* request[r]: the endpoint and the parsed JSON body
    sess,        \* sess[s]: "none", "open" or "closed"
    objs,        \* objs[s]: the EmgRecordDB objects session s holds
    tx,          \* tx[s]: rows inserted in s's transaction, not committed
    table,       \* emg_records: the committed rows
    nextId,      \* the id sequence of emg_records
    now,         \* the store's clock: transactions begun
    response,    \* response[r]: what the request answers
    raised,      \* raised[r]: the exception that ended the request, or ""
    commitCalls, \* commitCalls[r]: calls of db.commit() made for r
    committed,   \* committed[r]: r's COMMIT succeeded
    origin,      \* origin[id]: the request and position row id was staged for
    committer    \* <<id, r>>: the COMMIT of request r made row id visible

vars == <<pc, request, sess, objs, tx, table, nextId, now, response, raised,
          commitCalls, committed, origin, committer>>

\* app/db.py: a call of SessionLocal makes a new session: open, holding no
\* object, with no transaction begun; what it inserts stays in its own
\* transaction until COMMIT
SessionLocal == [state |-> "open", objs |-> <<>>, tx |-> {}]

\* db = SessionLocal() at module level: one session used by every request
SharedSession(r) == 1

\* db = SessionLocal(): a session of its own for every request
SessionOf(r) == r

Sessions == { SessionOf(r) : r \in Requests }

Init ==
    /\ pc = [r \in Requests |-> "idle"]
    /\ request = [r \in Requests |-> NoRequest]
    /\ sess = [s \in Sessions |-> "none"]
    /\ objs = [s \in Sessions |-> SessionLocal.objs]
    /\ tx = [s \in Sessions |-> SessionLocal.tx]
    /\ table = {}
    /\ nextId = 1
    /\ now = 0
    /\ response = [r \in Requests |-> NoResponse]
    /\ raised = [r \in Requests |-> ""]
    /\ commitCalls = [r \in Requests |-> 0]
    /\ committed = [r \in Requests |-> FALSE]
    /\ origin = <<>>
    /\ committer = {}

(* ------------------------- the store's answers ------------------------ *)

HTTP_201_CREATED == 201

\* return {"status": "Data Saved", "count": ...} under status_code=201
DataSaved(count) ==
    [status |-> HTTP_201_CREATED, saved |-> "Data Saved", count |-> count]

\* the framework's answer to a body that fails validation
UnprocessableEntity == [status |-> 422]

\* the framework's answer to an exception the handler lets through
InternalServerError == [status |-> 500]

(* ---------------------------- app/api/emg.py -------------------------- *)

\* the records the clients have sent so far
RECURSIVE Sent(_)
Sent(rs) ==
    IF rs = {} THEN 0
    ELSE LET r == CHOOSE x \in rs : TRUE
         IN  Len(request[r].body) + Sent(rs \ {r})

\* what a client can post when n more records may be sent: one object to
\* /emg/record, an array to /emg/records
Posts(n) ==
    [endpoint : {"records"}, body : Bodies(n)]
        \cup IF n = 0 THEN {}
             ELSE [endpoint : {"record"}, body : [1..1 -> WireRecords]]

\* Request r, the r-th to arrive, arrives.  The framework reads the JSON
\* body, enters get_db up to its yield (db = SessionLocal()) and validates
\* the body against the handler's parameter (records: List[EmgRecord] or
\* record: EmgRecord); it calls the handler only when the body is valid.
GetDb(r) ==
    /\ pc[r] = "idle"
    /\ \A q \in Requests : q < r => pc[q] # "idle"
    /\ \E req \in Posts(MaxRecords - Sent(Requests)) :
          /\ request' = [request EXCEPT ![r] = req]
          /\ IF ValidBody(req.body)
             THEN /\ pc' = [pc EXCEPT ![r] = "handler"]
                  /\ UNCHANGED <<response, raised>>
             ELSE /\ pc' = [pc EXCEPT ![r] = "teardown"]
                  /\ response' = [response EXCEPT ![r] = UnprocessableEntity]
                  /\ raised' = [raised EXCEPT ![r] = "RequestValidationError"]
    /\ sess' = [sess EXCEPT ![SessionOf(r)] = SessionLocal.state]
    /\ UNCHANGED <<objs, tx, table, nextId, now,
                   commitCalls, committed, origin, committer>>

\* receive_emg_record passing the record twice
SingleBatchTwice(record) == <<record, record>>

\* receive_emg_record passes [record]
SingleBatch(record) == <<record>>

\* what the handler of request r passes to create_emg_records
HandlerRecords(r) ==
    IF request[r].endpoint = "records"
    THEN Records(request[r].body)
    ELSE SingleBatch(Records(request[r].body)[1])

\* both handlers returning "count": 1
CountOne(r) == 1

\* the count the handler of request r returns
HandlerCount(r) ==
    IF request[r].endpoint = "records"
    THEN Len(Records(request[r].body))
    ELSE 1

(* ------------------------------ app/crud.py --------------------------- *)

\* db_records = [EmgRecordDB(...) for r in records]
DbRecords(r, records) ==
    [i \in 1..Len(records) |-> EmgRecordDB(records[i], r, i)]

\* The handler calls create_emg_records: the objects are made and
\* db.add_all(db_records) puts them in the session; db.commit() is called.
CreateEmgRecords(r) ==
    /\ pc[r] = "handler"
    /\ objs' = [objs EXCEPT ![SessionOf(r)] = @ \o DbRecords(r, HandlerRecords(r))]
    /\ commitCalls' = [commitCalls EXCEPT ![r] = @ + 1]
    /\ pc' = [pc EXCEPT ![r] = "commit"]
    /\ UNCHANGED <<request, sess, tx, table, nextId, now, response, raised,
                   committed, origin, committer>>

\* the positions of the objects of session s that have not been inserted
Unflushed(s) == { i \in 1..Len(objs[s]) : objs[s][i].id = 0 }

\* created_at of the rows of session s's transaction: the time it began
TxTime(s) ==
    IF tx[s] = {} THEN now + 1
    ELSE (CHOOSE row \in tx[s] : TRUE).created_at

\* db.add(record); db.commit() for one record after the other: an inserted
\* row is committed before the next record is written
InsertedCommittedEach(s, row) ==
    [tx |-> tx, table |-> table \cup {row}]

\* an insert that skips a record the table or the transaction already holds
InsertedUnlessPresent(s, row) ==
    IF \E old \in table \cup tx[s] :
          old.timestamp = row.timestamp /\ old.rawValue = row.rawValue
    THEN [tx |-> tx, table |-> table]
    ELSE [tx |-> [tx EXCEPT ![s] = @ \cup {row}], table |-> table]

\* db.add_all(db_records) and then one db.commit(): a row the flush inserts
\* goes into the session's transaction and the table stays as it is
Inserted(s, row) ==
    [tx |-> [tx EXCEPT ![s] = @ \cup {row}], table |-> table]

\* a handler that catches the exception and answers as if the write was made
RaiseSwallowed(r, exc) ==
    /\ tx' = [tx EXCEPT ![SessionOf(r)] = {}]
    /\ raised' = [raised EXCEPT ![r] = exc]
    /\ response' = [response EXCEPT ![r] = DataSaved(HandlerCount(r))]
    /\ pc' = [pc EXCEPT ![r] = "teardown"]

\* The exception a failed statement raises leaves the handler: the session
\* has rolled the transaction back and the framework answers 500.
Raise(r, exc) ==
    /\ tx' = [tx EXCEPT ![SessionOf(r)] = {}]
    /\ raised' = [raised EXCEPT ![r] = exc]
    /\ response' = [response EXCEPT ![r] = InternalServerError]
    /\ pc' = [pc EXCEPT ![r] = "teardown"]

\* db.commit() flushes: one INSERT per staged object, in order, in the
\* session's transaction.  The store refuses a timestamp the column cannot
\* hold.
FlushRow(r) ==
    LET s == SessionOf(r) IN
    /\ pc[r] = "commit"
    /\ Unflushed(s) # {}
    /\ LET i == CHOOSE k \in Unflushed(s) : \A m \in Unflushed(s) : k <= m
           o == objs[s][i]
           row == Row(o, nextId, TxTime(s))
       IN  IF TimestampColumnHolds(o.timestamp)
           THEN /\ tx' = Inserted(s, row).tx
                /\ table' = Inserted(s, row).table
                /\ objs' = [objs EXCEPT ![s][i].id = nextId]
                /\ origin' = Append(origin, o.by)
                /\ nextId' = nextId + 1
                /\ now' = IF tx[s] = {} THEN now + 1 ELSE now
                /\ UNCHANGED <<pc, response, raised>>
           ELSE /\ Raise(r, "DataError")
                /\ UNCHANGED <<table, objs, origin, nextId, now>>
    /\ UNCHANGED <<request, sess, commitCalls, committed, committer>>

\* db.commit() after the flush: COMMIT makes the transaction's rows visible
DbCommit(r) ==
    LET s == SessionOf(r) IN
    /\ pc[r] = "commit"
    /\ Unflushed(s) = {}
    /\ table' = table \cup tx[s]
    /\ committer' = committer \cup { <<row.id, r>> : row \in tx[s] }
    /\ tx' = [tx EXCEPT ![s] = {}]
    /\ committed' = [committed EXCEPT ![r] = TRUE]
    /\ pc' = [pc EXCEPT ![r] = "return"]
    /\ UNCHANGED <<request, sess, objs, nextId, now, response, raised,
                   commitCalls, origin>>

\* The store or the connection fails while create_emg_records runs: at the
\* staging, at an INSERT or at COMMIT.
StorageFails(r) ==
    /\ pc[r] \in {"handler", "commit"}
    /\ Raise(r, "OperationalError")
    /\ UNCHANGED <<request, sess, objs, table, nextId, now, commitCalls,
                   committed, origin, committer>>

\* the handler returns after create_emg_records has returned
Return(r) ==
    /\ pc[r] = "return"
    /\ response' = [response EXCEPT ![r] = DataSaved(HandlerCount(r))]
    /\ pc' = [pc EXCEPT ![r] = "teardown"]
    /\ UNCHANGED <<request, sess, objs, tx, table, nextId, now, raised,
                   commitCalls, committed, origin, committer>>

\* get_db closing after the yield without try/finally: an exception thrown
\* into the generator skips db.close()
AfterGetDbNoFinally(r) ==
    IF raised[r] = "" THEN "closed" ELSE sess[SessionOf(r)]

\* the state of the session after get_db is left: finally: db.close()
AfterGetDb(r) == "closed"

\* get_db after its yield, on every way out of the request; close() rolls
\* back a transaction that is still open and empties the session
Close(r) ==
    LET s == SessionOf(r) IN
    /\ pc[r] = "teardown"
    /\ sess' = [sess EXCEPT ![s] = AfterGetDb(r)]
    /\ tx' = [tx EXCEPT ![s] = IF AfterGetDb(r) = "closed" THEN {} ELSE @]
    /\ objs' = [objs EXCEPT ![s] = IF AfterGetDb(r) = "closed" THEN <<>> ELSE @]
    /\ pc' = [pc EXCEPT ![r] = "done"]
    /\ UNCHANGED <<request, table, nextId, now, response, raised,
                   commitCalls, committed, origin, committer>>

Next ==
    \E r \in Requests :
        \/ GetDb(r)
        \/ CreateEmgRecords(r)
        \/ FlushRow(r)
        \/ DbCommit(r)
        \/ StorageFails(r)
        \/ Return(r)
        \/ Close(r)

Spec == Init /\ [][Next]_vars

(* ---------------------------- properties ------------------------------ *)

Arrived(r) == pc[r] # "idle"

Finished(r) == pc[r] = "done"

\* the ids of the rows inserted for the records of request r
IdsFor(r) == { id \in 1..Len(origin) : origin[id][1] = r }

\* the visible rows that come from the records of request r
VisibleOf(r) == { row \in table : origin[row.id][1] = r }

\* a row without its id and created_at
Fields(row) == [timestamp |-> row.timestamp, rawValue |-> row.rawValue]

\* every record of the batch is a visible row, and nothing else of r is
WholeBatchVisible(r, records) ==
    /\ Cardinality(VisibleOf(r)) = Len(records)
    /\ \A i \in 1..Len(records) :
          \E row \in VisibleOf(r) :
             /\ origin[row.id] = <<r, i>>
             /\ Fields(row) = records[i]

\* a field is missing or of the wrong type
Malformed(w) ==
    \/ w.timestamp.t \in {"absent", "null"}
    \/ w.rawValue.t \in {"absent", "null"}

\* the record has an integer timestamp outside [-2^63, 2^63 - 1]
OutOfRange(w) == w.timestamp.t = "int" /\ ~InInt64(w.timestamp.v)

SomeRecord(r, P(_)) == \E i \in 1..Len(request[r].body) : P(request[r].body[i])

StorageFailed(r) == raised[r] \in {"DataError", "OperationalError"}

\* C1: the append is atomic per call. In every state the visible rows of a
\* call are all of its batch when its commit succeeded and none otherwise,
\* whatever point the call or any other call failed at.
C1_AtomicAppend ==
    \A r \in Requests :
        IF committed[r]
        THEN WholeBatchVisible(r, HandlerRecords(r))
        ELSE VisibleOf(r) = {}

\* a call with two records failed after one of them was inserted
C1_Witness ==
    \E r \in Requests :
        /\ raised[r] = "OperationalError"
        /\ Len(request[r].body) = 2
        /\ Cardinality(IdsFor(r)) = 1
        /\ Finished(r)

\* C2: a POST /emg/records call with N records that answers 201 answers
\* count N and has made exactly N rows visible, for N >= 0; with no storage
\* failure a valid call does answer 201.
C2_BatchCount ==
    \A r \in Requests :
        request[r].endpoint = "records" =>
            /\ response[r].status = HTTP_201_CREATED =>
                  /\ response[r] = DataSaved(Len(request[r].body))
                  /\ Cardinality(VisibleOf(r)) = Len(request[r].body)
                  /\ WholeBatchVisible(r, Records(request[r].body))
            /\ Finished(r) /\ raised[r] = "" =>
                  response[r].status = HTTP_201_CREATED

\* one batch call with no record and another with two have both answered 201
C2_Witness ==
    \E a, b \in Requests :
        /\ request[a].endpoint = "records" /\ request[b].endpoint = "records"
        /\ Len(request[a].body) = 0 /\ Len(request[b].body) = 2
        /\ response[a].status = HTTP_201_CREATED
        /\ response[b].status = HTTP_201_CREATED
        /\ Cardinality(table) = 2

\* C3: a body with a malformed record is rejected whole with a validation
\* failure: the request answers 422, create_emg_records is not called, nothing
\* is staged or inserted and no row of the request becomes visible.
C3_MalformedRejected ==
    \A r \in Requests :
        Arrived(r) /\ SomeRecord(r, Malformed) =>
            /\ response[r] = UnprocessableEntity
            /\ raised[r] = "RequestValidationError"
            /\ pc[r] \in {"teardown", "done"}
            /\ commitCalls[r] = 0
            /\ ~committed[r]
            /\ IdsFor(r) = {}
            /\ \A i \in 1..Len(objs[SessionOf(r)]) :
                  objs[SessionOf(r)][i].by[1] # r
            /\ VisibleOf(r) = {}

\* a batch of one well-formed and one malformed record has been answered
C3_Witness ==
    \E r \in Requests :
        /\ Finished(r)
        /\ Len(request[r].body) = 2
        /\ Malformed(request[r].body[2])
        /\ ~Malformed(request[r].body[1]) /\ ~OutOfRange(request[r].body[1])

\* C4: "Data Saved" is answered only after the request's commit succeeded;
\* a failure in staging or commit ends the request with a server error and
\* without "Data Saved"; db.commit() is called at most once per request.
C4_SavedOnlyAfterCommit ==
    \A r \in Requests :
        /\ response[r].status = HTTP_201_CREATED => committed[r]
        /\ commitCalls[r] <= 1
        /\ StorageFailed(r) =>
              /\ response[r] = InternalServerError
              /\ ~committed[r]
        /\ committed[r] => commitCalls[r] = 1

\* one request has answered "Data Saved" and another has failed at its commit
C4_Witness ==
    \E a, b \in Requests :
        /\ response[a].status = HTTP_201_CREATED
        /\ request[a].endpoint = "record"
        /\ raised[b] = "OperationalError"
        /\ commitCalls[b] = 1
        /\ Finished(a) /\ Finished(b)

\* C5: a record posted to /emg/record and the same record posted as a
\* one-element array to /emg/records end with the same response and the
\* same rows but for id and created_at, whatever the store held before.
C5_SingleEqualsBatch ==
    \A a, b \in Requests :
        /\ request[a].endpoint = "record"
        /\ request[b].endpoint = "records"
        /\ request[a].body = request[b].body
        /\ Finished(a) /\ Finished(b)
        /\ raised[a] # "OperationalError" /\ raised[b] # "OperationalError"
        => /\ response[a].status = response[b].status
           /\ response[a] = response[b]
           /\ { Fields(row) : row \in VisibleOf(a) }
                 = { Fields(row) : row \in VisibleOf(b) }
           /\ Cardinality(VisibleOf(a)) = Cardinality(VisibleOf(b))

\* the same valid record has been saved through both endpoints
C5_Witness ==
    \E a, b \in Requests :
        /\ request[a].endpoint = "record"
        /\ request[b].endpoint = "records"
        /\ request[a].body = request[b].body
        /\ Finished(a) /\ Finished(b)
        /\ response[a] = DataSaved(1)
        /\ response[b] = DataSaved(1)
        /\ Cardinality(table) = 2

\* C6: the session get_db opened for a request is closed on every way out:
\* a finished request has a closed session with no open transaction, an
\* open session belongs to a request in flight, and no more sessions are
\* open than requests are in flight.
C6_SessionReleased ==
    /\ \A r \in Requests :
          Finished(r) =>
              /\ sess[SessionOf(r)] = "closed"
              /\ tx[SessionOf(r)] = {}
    /\ \A s \in Sessions :
          sess[s] = "open" =>
              \E r \in Requests : SessionOf(r) = s /\ Arrived(r) /\ ~Finished(r)
    /\ Cardinality({ s \in Sessions : sess[s] = "open" })
          <= Cardinality({ r \in Requests : Arrived(r) /\ ~Finished(r) })

\* one request finished after a storage failure, another after a rejected
\* body or a commit
C6_Witness ==
    \E a, b \in Requests :
        /\ Finished(a) /\ StorageFailed(a)
        /\ Finished(b) /\ ~StorageFailed(b)

\* C7: a request whose records are well-formed with timestamps inside the
\* signed 64-bit range, the boundaries -2^63 and 2^63 - 1 included, passes
\* validation, is never refused by the store for a value, and every row it
\* makes holds exactly the timestamp that was sent.
C7_BoundaryStored ==
    \A r \in Requests :
        Arrived(r) /\ ~SomeRecord(r, Malformed) /\ ~SomeRecord(r, OutOfRange) =>
            /\ raised[r] \notin {"RequestValidationError", "DataError"}
            /\ \A row \in VisibleOf(r) :
                  row.timestamp = request[r].body[origin[row.id][2]].timestamp.v
            /\ committed[r] =>
                  \A i \in 1..Len(request[r].body) :
                     \E row \in VisibleOf(r) :
                        row.timestamp = request[r].body[i].timestamp.v

\* rows with timestamp 2^63 - 1 and with timestamp -2^63 are visible
C7_Witness ==
    /\ \E row \in table : row.timestamp = INT64_MAX
    /\ \E row \in table : row.timestamp = INT64_MIN

\* the number of records of the requests in rs whose commit succeeded
RECURSIVE CommittedRecords(_)
CommittedRecords(rs) ==
    IF rs = {} THEN 0
    ELSE LET r == CHOOSE x \in rs : TRUE
         IN  (IF committed[r] THEN Len(HandlerRecords(r)) ELSE 0)
                + CommittedRecords(rs \ {r})

\* C8: no submission is deduplicated and no row is ever changed or removed:
\* the table holds one row per record of every committed call, two committed
\* calls with the same batch of N records hold 2N rows between them, and
\* every step keeps the rows that were there.
C8_AppendOnly ==
    /\ [](Cardinality(table) = CommittedRecords(Requests))
    /\ [](\A a, b \in Requests :
             a # b /\ committed[a] /\ committed[b]
                 /\ HandlerRecords(a) = HandlerRecords(b) =>
             Cardinality(VisibleOf(a) \cup VisibleOf(b))
                 = 2 * Len(HandlerRecords(a)))
    /\ [][table \subseteq table']_vars

\* the same record has been committed twice and is there twice
C8_Witness ==
    \E a, b \in Requests :
        /\ a # b /\ committed[a] /\ committed[b]
        /\ HandlerRecords(a) = HandlerRecords(b)
        /\ Len(HandlerRecords(a)) = 1
        /\ Cardinality(table) = 2

\* C9: a record whose timestamp lies outside [-2^63, 2^63 - 1] is rejected
\* at validation with a client error and never reaches create_emg_records:
\* with the store in working order, the request ends answering 422, with no
\* call of db.commit() and nothing inserted for it.
C9_OutOfRangeRejected ==
    \A r \in Requests :
        Finished(r) /\ SomeRecord(r, OutOfRange) /\ raised[r] # "OperationalError" =>
            /\ response[r] = UnprocessableEntity
            /\ commitCalls[r] = 0
            /\ IdsFor(r) = {}

\* request q took the step: it moved, or it inserted a row
Stepped(q) ==
    \/ pc'[q] # pc[q]
    \/ objs'[SessionOf(q)] # objs[SessionOf(q)]

\* C10: concurrent requests are independent. Every visible row was made
\* visible by the commit of the request it was staged for, the visible rows
\* are exactly the batches of the committed requests, and a step of one
\* request (an insert, a commit, a failure, a close) leaves the transaction
\* and the visible rows of every other request as they were.
C10_Independent ==
    /\ [](\A row \in table :
             /\ <<row.id, origin[row.id][1]>> \in committer
             /\ committed[origin[row.id][1]])
    /\ [](\A r \in Requests :
             committed[r] => Cardinality(VisibleOf(r)) = Len(HandlerRecords(r)))
    /\ [][\A q \in Requests :
             ~Stepped(q) =>
                /\ tx'[SessionOf(q)] = tx[SessionOf(q)]
                /\ VisibleOf(q)' = VisibleOf(q)]_vars

\* a request has committed a row it inserted after a row of another
\* request, whose transaction is still open
C10_Witness ==
    \E a, b \in Requests :
        /\ a # b /\ committed[a]
        /\ \E rowa \in VisibleOf(a) : \E rowb \in tx[SessionOf(b)] :
              rowb.id < rowa.id

=============================================================================
